---- MODULE Spec2Model ----
(***************************************************************************)
(* A model of gps_read.py: the NMEA-0183 frame validator, the field        *)
(* converters, the sentence decoder, the state merger, the renderers and   *)
(* the two processing loops of main() (continuous and --once).             *)
(*                                                                         *)
(* Text is modelled by TLA+ strings; a character is a string of length 1.  *)
(* A Python float is modelled as a fixed-point number, an integer count of *)
(* millionths (1.5 is 1500000), plus the two special values nan and inf.   *)
(* A Python dict is modelled as the sequence of its items in insertion     *)
(* order, as CPython keeps it.                                             *)
(***************************************************************************)
EXTENDS Integers, Sequences, FiniteSets, TLC

VARIABLES
    args,         \* the parsed command line
    pc,           \* where main() is: "open", "read", "tick", "final", or how it
                  \* ended: "returned", "exit1", "traceback"
    line,         \* raw: the line just read
    frame,        \* what validation made of it
    updates,      \* the PartialUpdate of the last decoded sentence
    state,        \* FixState
    last_emit,    \* the clock reading of the last cadence tick
    clock,        \* what time.time() returns, in ticks
    nread,        \* lines read so far
    outputs,      \* the renderings the --once loop has collected
    stdout,       \* what was printed, each entry with the clock reading then
    stderr,       \* what was reported as an error
    logf,         \* the log file: "none", "open" or "closed"
    logged,       \* the lines written to it
    interrupted   \* a KeyboardInterrupt has arrived

vars == <<args, pc, line, frame, updates, state, last_emit, clock, nread,
          outputs, stdout, stderr, logf, logged, interrupted>>

-----------------------------------------------------------------------------
(* Bounds of the model.                                                    *)

\* Lines the line source yields before the model stops reading.
MaxLines == 3

-----------------------------------------------------------------------------
(* Characters and strings.                                                 *)

Char(s, i) == SubSeq(s, i, i)

Chars(s) == {Char(s, i) : i \in 1..Len(s)}

Digits == Chars("0123456789")

UpperLetters == Chars("ABCDEFGHIJKLMNOPQRSTUVWXYZ")

HexDigitsUpper == Chars("0123456789ABCDEF")

LowerHex == "abcdef"

UpperHex == "ABCDEF"

\* str.strip() removes these from both ends.
Whitespace == {" ", "\t", "\n", "\r", "\f"}

\* The ASCII characters of the model in code order, in two runs: space to
\* '[' (32 to 91) and the lower-case letters (97 to 122).
AsciiRun1 == " !\"#$%&'()*+,-./0123456789:;<=>?@ABCDEFGHIJKLMNOPQRSTUVWXYZ["

AsciiRun2 == "abcdefghijklmnopqrstuvwxyz"

IndexIn(s, c) == CHOOSE i \in 1..Len(s) : Char(s, i) = c

\* ord(ch) of Python, as a table over the characters the model uses.
OrdTable ==
    [c \in Chars(AsciiRun1) \cup Chars(AsciiRun2) \cup {"\t", "\n", "\r", "\f"} |->
        IF c \in Chars(AsciiRun1) THEN 31 + IndexIn(AsciiRun1, c)
        ELSE IF c \in Chars(AsciiRun2) THEN 96 + IndexIn(AsciiRun2, c)
        ELSE IF c = "\t" THEN 9
        ELSE IF c = "\n" THEN 10
        ELSE IF c = "\f" THEN 12
        ELSE 13]

ord(ch) == OrdTable[ch]

\* The bit of weight w (1, 2, 4, ...) of a byte.
Bit(a, w) == (a \div w) % 2

RECURSIVE SumOf(_)
SumOf(S) == IF S = {} THEN 0 ELSE LET x == CHOOSE y \in S : TRUE IN x + SumOf(S \ {x})

\* f"{c:02X}" for 0 <= c < 256.
Hex02X(c) ==
    Char("0123456789ABCDEF", (c \div 16) + 1) \o Char("0123456789ABCDEF", (c % 16) + 1)

\* c = 0; for ch in s: c ^= ord(ch).  A bit of the running XOR is set exactly
\* when an odd number of the characters have it set.
XorOfChars(s) ==
    SumOf({w \in {1, 2, 4, 8, 16, 32, 64, 128} :
              Cardinality({i \in 1..Len(s) : Bit(ord(Char(s, i)), w) = 1}) % 2 = 1})

\* nmea_checksum(s): the XOR of the characters as two upper-case hex digits.
nmea_checksum(s) == Hex02X(XorOfChars(s))

\* str.upper() on the characters a checksum group can hold.
RECURSIVE upper(_)
upper(s) ==
    IF s = "" THEN ""
    ELSE (IF Char(s, 1) \in Chars(LowerHex)
          THEN Char(UpperHex, IndexIn(LowerHex, Char(s, 1))) ELSE Char(s, 1))
         \o upper(SubSeq(s, 2, Len(s)))

RECURSIVE lstrip(_)
lstrip(s) ==
    IF s # "" /\ Char(s, 1) \in Whitespace THEN lstrip(SubSeq(s, 2, Len(s))) ELSE s

RECURSIVE rstrip(_)
rstrip(s) ==
    IF s # "" /\ Char(s, Len(s)) \in Whitespace
    THEN rstrip(SubSeq(s, 1, Len(s) - 1)) ELSE s

\* s.strip()
strip(s) == lstrip(rstrip(s))

AllIn(s, S) == \A i \in 1..Len(s) : Char(s, i) \in S

\* Positions of character c in s.
Positions(s, c) == {i \in 1..Len(s) : Char(s, i) = c}

\* s.split(','): the pieces between the separators, empty pieces kept.
RECURSIVE SplitFrom(_, _, _)
SplitFrom(s, sep, start) ==
    LET later == {i \in Positions(s, sep) : i >= start}
    IN IF later = {} THEN <<SubSeq(s, start, Len(s))>>
       ELSE LET p == CHOOSE i \in later : \A j \in later : i <= j
            IN <<SubSeq(s, start, p - 1)>> \o SplitFrom(s, sep, p + 1)

split(s, sep) == SplitFrom(s, sep, 1)

-----------------------------------------------------------------------------
(* Frame validation: NMEA_RE and the checksum test of the loops.           *)

NoMatch == [ok |-> FALSE, g1 |-> "", g2 |-> "", g3 |-> ""]

\* NMEA_RE.match(s) for a stripped s:
\*   ^\$([A-Z0-9]{2,3}[A-Z]{3}),(.*)\*([0-9A-F]{2})\r?\n?$
\* Group 1 is 5 or 6 characters and is followed by a comma; the two cases
\* exclude each other (the 7th character is a letter or a comma).  The end
\* anchor fixes the star at the third character from the end.
HeadMatch(s, n) ==
    /\ Len(s) >= 1 + n + 1
    /\ AllIn(SubSeq(s, 2, n - 2), UpperLetters \cup Digits)
    /\ AllIn(SubSeq(s, n - 1, n + 1), UpperLetters)
    /\ Char(s, n + 2) = ","

\* The length of group 1, 0 when the head of s does not match.
HeadLen(s) == IF HeadMatch(s, 6) THEN 6 ELSE IF HeadMatch(s, 5) THEN 5 ELSE 0

\* The rest of the pattern after a group 1 of n characters; hex is the set
\* of characters the checksum group takes.
TailMatch(s, n, hex) ==
    IF /\ n > 0
       /\ Len(s) - 2 >= n + 3
       /\ Char(s, Len(s) - 2) = "*"
       /\ AllIn(SubSeq(s, Len(s) - 1, Len(s)), hex)
       /\ "\n" \notin Chars(SubSeq(s, n + 3, Len(s) - 3))
    THEN [ok |-> TRUE, g1 |-> SubSeq(s, 2, n + 1),
          g2 |-> SubSeq(s, n + 3, Len(s) - 3), g3 |-> SubSeq(s, Len(s) - 1, Len(s))]
    ELSE NoMatch

NMEA_RE_match(s) ==
    IF s = "" \/ Char(s, 1) # "$" THEN NoMatch
    ELSE TailMatch(s, HeadLen(s), HexDigitsUpper)

Rejected == [ok |-> FALSE, talker_sen |-> "", fields |-> <<>>]

\* Lines 365-379 (and 290-304): decode and strip, the '$' test, the regex,
\* the checksum comparison, and the split of the field list.
\* Lines 372-379 on a match m: body, cs = m.group(3).upper(), the
\* comparison with nmea_checksum(body), and fields = m.group(2).split(',').
CheckedFrame(m) ==
    IF ~m.ok THEN Rejected
    ELSE IF upper(m.g3) # nmea_checksum(m.g1 \o "," \o m.g2) THEN Rejected
    ELSE [ok |-> TRUE, talker_sen |-> m.g1, fields |-> split(m.g2, ",")]

\* Lines 365-371 (and 290-297): s = raw.decode(...).strip(), the '$' test,
\* then the regex.
ValidateFrame(raw) ==
    IF strip(raw) = "" \/ Char(strip(raw), 1) # "$" THEN Rejected
    ELSE CheckedFrame(NMEA_RE_match(strip(raw)))

-----------------------------------------------------------------------------
(* Python values and dicts.                                                *)

\* A value: its type t, an integer payload n (an int, a bool as 0/1, a float
\* in millionths), a text payload s (a str; "nan"/"inf" for those floats; the
\* exception's name for a raised exception) and, for the 'gsv' value, the
\* dict g of talker -> in_view count.
Val(t, n, s, g) == [t |-> t, n |-> n, s |-> s, g |-> g]

PyNone == Val("None", 0, "", <<>>)

PyFloat(n) == Val("float", n, "", <<>>)

PyNaN == Val("float", 0, "nan", <<>>)

PyInf(sign) == Val("float", sign, "inf", <<>>)

PyInt(n) == Val("int", n, "", <<>>)

PyStr(s) == Val("str", 0, s, <<>>)

PyBool(b) == Val("bool", IF b THEN 1 ELSE 0, "", <<>>)

PyGsv(g) == Val("gsv", 0, "", g)

\* An exception propagating out of a call.
Raise(name) == Val("raise", 0, name, <<>>)

IsRaise(v) == v.t = "raise"

IsFinite(v) == v.t = "float" /\ v.s = ""

Item(k, v) == [k |-> k, v |-> v]

\* A dict is the sequence of its items in insertion order.
DictKeys(d) == {d[i].k : i \in DOMAIN d}

Has(d, k) == k \in DictKeys(d)

\* d[k] for a key of d.
At(d, k) == d[CHOOSE i \in DOMAIN d : d[i].k = k].v

\* d.get(k): None for a missing key.
Get(d, k) == IF Has(d, k) THEN At(d, k) ELSE PyNone

\* d[k] = v: replaces the value in place, or appends a new item.
Put(d, k, v) ==
    IF Has(d, k) THEN [i \in DOMAIN d |-> IF d[i].k = k THEN Item(k, v) ELSE d[i]]
    ELSE Append(d, Item(k, v))

-----------------------------------------------------------------------------
(* Number parsing: int() and float() on the texts of the model.            *)

\* The number a run of decimal digits denotes (0 for the empty run).
RECURSIVE DecValue(_)
DecValue(s) ==
    IF s = "" THEN 0
    ELSE 10 * DecValue(SubSeq(s, 1, Len(s) - 1)) + IndexIn("0123456789", Char(s, Len(s))) - 1

SignOf(s) == IF s # "" /\ Char(s, 1) = "-" THEN -1 ELSE 1

Unsigned(s) == IF s # "" /\ Char(s, 1) \in {"+", "-"} THEN SubSeq(s, 2, Len(s)) ELSE s

\* str.isdigit() on ASCII text: non-empty and all digits.
isdigit(s) == s # "" /\ AllIn(s, Digits)

\* int(s) accepts surrounding whitespace and a sign; anything else raises
\* ValueError.  (Underscore digit separators are outside the model's texts.)
IntOk(s) == isdigit(Unsigned(strip(s)))

IntValue(s) == SignOf(strip(s)) * DecValue(Unsigned(strip(s)))

\* float(s): "num" for [sign] digits [. digits] and [sign] . digits, "nan",
\* "inf", or "bad" (ValueError).  (Exponents and underscores are outside the
\* model's texts.)
KindOf(b) ==
    IF b \in {"nan", "NaN", "NAN"} THEN "nan"
    ELSE IF b \in {"inf", "Inf", "INF", "infinity", "Infinity", "INFINITY"} THEN "inf"
    ELSE IF /\ AllIn(b, Digits \cup {"."})
            /\ Cardinality(Positions(b, ".")) <= 1
            /\ Len(b) > Cardinality(Positions(b, "."))
         THEN "num"
         ELSE "bad"

FloatKind(s) == KindOf(Unsigned(strip(s)))

Pow10(k) == CASE k = 0 -> 1 [] k = 1 -> 10 [] k = 2 -> 100 [] k = 3 -> 1000
              [] k = 4 -> 10000 [] k = 5 -> 100000 [] k = 6 -> 1000000

RECURSIVE Zeros(_)
Zeros(k) == IF k <= 0 THEN "" ELSE "0" \o Zeros(k - 1)

\* The value of a "num" text in units of 10^-places, digits beyond that
\* dropped: Scaled("545.4", 3) = 545400.
DotPos(b) ==
    IF Positions(b, ".") = {} THEN Len(b) + 1 ELSE CHOOSE i \in Positions(b, ".") : TRUE

Magnitude(b, places) ==
    DecValue(SubSeq(b, 1, DotPos(b) - 1)) * Pow10(places)
    + DecValue(SubSeq(SubSeq(b, DotPos(b) + 1, Len(b)) \o Zeros(places), 1, places))

Scaled(s, places) == SignOf(strip(s)) * Magnitude(Unsigned(strip(s)), places)

\* float(s) as a value: a float in millionths, nan, inf, or ValueError.
FloatOfKind(s, kind) ==
    CASE kind = "num" -> PyFloat(Scaled(s, 6))
      [] kind = "nan" -> PyNaN
      [] kind = "inf" -> PyInf(SignOf(strip(s)))
      [] OTHER -> Raise("ValueError")

float(s) == FloatOfKind(s, FloatKind(s))

-----------------------------------------------------------------------------
(* Field converters.                                                       *)

\* Division rounding to the nearest integer (b > 0).
DivRound(a, b) == (2 * a + b) \div (2 * b)

\* dm_to_deg(dm, hemi), lines 13-26.  float(dm) is read in thousandths of a
\* minute (ddmm.mmm); int(val // 100) raises on nan and on inf, outside the
\* try.  The result is rounded to the nearest millionth of a degree.
DecimalDegrees(val, deg) == deg * 1000000 + DivRound((val - deg * 100000) * 1000, 60)

DegreesOf(val, hemi) ==
    PyFloat(IF hemi \in {"S", "W"} THEN -DecimalDegrees(val, val \div 100000)
            ELSE DecimalDegrees(val, val \div 100000))

DegreesOfKind(dm, hemi, kind) ==
    CASE kind = "bad" -> PyNone
      [] kind = "nan" -> Raise("ValueError")
      [] kind = "inf" -> Raise("OverflowError")
      [] OTHER -> DegreesOf(Scaled(dm, 3), hemi)

dm_to_deg(dm, hemi) == IF dm = "" THEN PyNone ELSE DegreesOfKind(dm, hemi, FloatKind(dm))

\* x * 0.514444 for x in thousandths, the product in millionths.
TimesKnot(x) == x * 514 + DivRound(x * 444, 1000)

\* knots_to_mps(kn), lines 28-32.
KnotsOfKind(kn, kind) ==
    CASE kind = "num" -> PyFloat(TimesKnot(Scaled(kn, 3)))
      [] kind = "nan" -> PyNaN
      [] kind = "inf" -> PyInf(SignOf(strip(kn)))
      [] OTHER -> PyNone

knots_to_mps(kn) == KnotsOfKind(kn, FloatKind(kn))

\* except Exception: return None
NoneIfRaise(v) == IF IsRaise(v) THEN PyNone ELSE v

\* safe_float(x), lines 34-38.
safe_float(x) == NoneIfRaise(float(x))

\* v * 3.6 and v / 3.6 on a float value.
Times36(v) == IF IsFinite(v) THEN PyFloat(DivRound(v.n * 36, 10)) ELSE v

Over36(v) == IF IsFinite(v) THEN PyFloat(DivRound(v.n * 10, 36)) ELSE v

-----------------------------------------------------------------------------
(* Timestamp assembly.                                                     *)

\* s[a:b] and s[a:] of Python (0-based, end exclusive).
Slice(s, a, b) == SubSeq(s, a + 1, IF b <= Len(s) THEN b ELSE Len(s))

SliceFrom(s, a) == SubSeq(s, a + 1, Len(s))

\* datetime.datetime.now(timezone.utc): the calendar date of the run.
Today == [y |-> 2025, mo |-> 10, d |-> 29]

IsLeap(y) == (y % 4 = 0 /\ y % 100 # 0) \/ y % 400 = 0

DaysIn(y, mo) ==
    IF mo = 2 THEN (IF IsLeap(y) THEN 29 ELSE 28)
    ELSE IF mo \in {4, 6, 9, 11} THEN 30 ELSE 31

\* The argument checks of datetime(...) and of datetime.replace(...).
ValidDateTime(y, mo, d, hh, mm, ss) ==
    /\ y \in 1..9999 /\ mo \in 1..12 /\ d \in 1..DaysIn(y, mo)
    /\ hh \in 0..23 /\ mm \in 0..59 /\ ss \in 0..59

\* n in decimal, zero-padded to w digits (n >= 0).
ZeroPad(n, w) == Zeros(w - Len(ToString(n))) \o ToString(n)

\* t.isoformat().replace('+00:00','Z') of a UTC datetime without microseconds.
IsoZ(y, mo, d, hh, mm, ss) ==
    ZeroPad(y, 4) \o "-" \o ZeroPad(mo, 2) \o "-" \o ZeroPad(d, 2) \o "T"
    \o ZeroPad(hh, 2) \o ":" \o ZeroPad(mm, 2) \o ":" \o ZeroPad(ss, 2) \o "Z"

\* The two-digit year rule of line 50.
ExpandYear(yy) == IF yy < 80 THEN 2000 + yy ELSE 1900 + yy

\* parse_time_date(utc_hms, ddmmyy), lines 40-54, followed by the rendering
\* of lines 65, 82, 97 and 144.  The result is None, the ISO text, or the
\* exception that int(), float() or datetime() raises: nothing catches it.
\* A missing date (None) is the empty text.
MakeDateTime(y, mo, d, hh, mm, ss) ==
    IF ValidDateTime(y, mo, d, hh, mm, ss) THEN PyStr(IsoZ(y, mo, d, hh, mm, ss))
    ELSE Raise("ValueError")

\* Lines 46-53 once the time of day is known.
WithDate(hh, mm, sec, ddmmyy) ==
    IF ddmmyy # "" /\ Len(ddmmyy) = 6
    THEN IF \E i \in {0, 2, 4} : ~IntOk(Slice(ddmmyy, i, i + 2))
         THEN Raise("ValueError")
         ELSE MakeDateTime(ExpandYear(IntValue(Slice(ddmmyy, 4, 6))),
                           IntValue(Slice(ddmmyy, 2, 4)),
                           IntValue(Slice(ddmmyy, 0, 2)), hh, mm, sec)
    ELSE MakeDateTime(Today.y, Today.mo, Today.d, hh, mm, sec)

\* Line 45: ss = int(float(utc_hms[4:])).
WithSeconds(hh, mm, ss, kind, ddmmyy) ==
    IF kind \in {"bad", "nan"} THEN Raise("ValueError")
    ELSE IF kind = "inf" THEN Raise("OverflowError")
    ELSE WithDate(hh, mm, Scaled(ss, 0), ddmmyy)

\* Lines 43-44: hh = int(utc_hms[0:2]); mm = int(utc_hms[2:4]).
WithTime(hs, ms, ss, ddmmyy) ==
    IF ~IntOk(hs) \/ ~IntOk(ms) THEN Raise("ValueError")
    ELSE WithSeconds(IntValue(hs), IntValue(ms), ss, FloatKind(ss), ddmmyy)

parse_time_date(utc_hms, ddmmyy) ==
    IF utc_hms = "" THEN PyNone
    ELSE WithTime(Slice(utc_hms, 0, 2), Slice(utc_hms, 2, 4), SliceFrom(utc_hms, 4),
                  ddmmyy)

-----------------------------------------------------------------------------
(* The sentence decoder.                                                   *)

\* fields[i] of Python (0-based).
Fld(fields, i) == fields[i + 1]

\* The items a statement "if cond: u[k] = v" adds.
Opt(cond, k, v) == IF cond THEN <<Item(k, v)>> ELSE <<>>

Set(k, v) == <<Item(k, v)>>

\* The variant without the guard: "u[k] = v" whatever v is.
SetAlways(k, v) == Set(k, v)

\* "u[k] = v if v is not None": lat, lon and utc_time are set only when known.
SetKnown(k, v) == Opt(v # PyNone, k, v)

IntOrNone(x) == IF isdigit(x) THEN PyInt(DecValue(x)) ELSE PyNone

Parsed(raised, u) == [raised |-> raised, u |-> u]

\* The first exception among the values, "" when none raises.
FirstRaise(vs) ==
    IF \E i \in DOMAIN vs : IsRaise(vs[i])
    THEN vs[CHOOSE i \in DOMAIN vs : IsRaise(vs[i]) /\ \A j \in 1..(i - 1) : ~IsRaise(vs[j])].s
    ELSE ""

\* u['speed_mps'] and u['speed_kmh'] of lines 70-73 (and 127-130).
SpeedFromMps(mps) ==
    Opt(mps # PyNone, "speed_mps", mps) \o Opt(mps # PyNone, "speed_kmh", Times36(mps))

\* Lines 65-77 on the converted values.
rmc_update(fields, t, lat, lon, sog_mps) ==
    Parsed(FirstRaise(<<t, lat, lon>>),
        SetKnown("utc_time", t)
        \o Set("fix_ok", PyBool(Fld(fields, 1) = "A"))
        \o SetKnown("lat", lat) \o SetKnown("lon", lon)
        \o SpeedFromMps(sog_mps)
        \o Set("course_deg", safe_float(Fld(fields, 7)))
        \o (IF Len(fields) >= 12 /\ Fld(fields, 11) # ""
            THEN Set("mode", PyStr(Fld(fields, 11))) ELSE <<>>))

\* Lines 61-77.
parse_RMC(fields) ==
    IF Len(fields) < 11 THEN Parsed("", <<>>)
    ELSE rmc_update(fields,
            parse_time_date(Fld(fields, 0), Fld(fields, 8)),
            dm_to_deg(Fld(fields, 2), Fld(fields, 3)),
            dm_to_deg(Fld(fields, 4), Fld(fields, 5)),
            IF Fld(fields, 6) # "" THEN knots_to_mps(Fld(fields, 6)) ELSE PyNone)

\* Lines 82-92 on the converted values.
gga_update(fields, t, lat, lon) ==
    Parsed(FirstRaise(<<t, lat, lon>>),
        SetKnown("utc_time", t)
        \o SetKnown("lat", lat) \o SetKnown("lon", lon)
        \o Set("fix_quality", IntOrNone(Fld(fields, 5)))
        \o Set("num_sats", IntOrNone(Fld(fields, 6)))
        \o Set("hdop", safe_float(Fld(fields, 7)))
        \o Set("alt_m", safe_float(Fld(fields, 8)))
        \o Set("geoid_sep_m", safe_float(Fld(fields, 10)))
        \o Set("age_corrections_s",
               IF Len(fields) > 12 THEN safe_float(Fld(fields, 12)) ELSE PyNone)
        \o Set("dgps_id",
               IF Len(fields) > 13 THEN PyStr(Fld(fields, 13)) ELSE PyNone))

\* Lines 78-92.
parse_GGA(fields) ==
    IF Len(fields) < 12 THEN Parsed("", <<>>)
    ELSE gga_update(fields,
            parse_time_date(Fld(fields, 0), ""),
            dm_to_deg(Fld(fields, 1), Fld(fields, 2)),
            dm_to_deg(Fld(fields, 3), Fld(fields, 4)))

\* Lines 97-105 on the converted values.
gns_update(fields, t, lat, lon) ==
    Parsed(FirstRaise(<<t, lat, lon>>),
        SetKnown("utc_time", t)
        \o SetKnown("lat", lat) \o SetKnown("lon", lon)
        \o Set("mode", PyStr(Fld(fields, 5)))
        \o Set("num_sats", IntOrNone(Fld(fields, 6)))
        \o Set("hdop", safe_float(Fld(fields, 7)))
        \o Set("alt_m", safe_float(Fld(fields, 8)))
        \o (IF Len(fields) > 9
            THEN Set("geoid_sep_m", safe_float(Fld(fields, 9))) ELSE <<>>))

\* Lines 93-105.
parse_GNS(fields) ==
    IF Len(fields) < 9 THEN Parsed("", <<>>)
    ELSE gns_update(fields,
            parse_time_date(Fld(fields, 0), ""),
            dm_to_deg(Fld(fields, 1), Fld(fields, 2)),
            dm_to_deg(Fld(fields, 3), Fld(fields, 4)))

\* Lines 106-112.
parse_GSA(fields) ==
    IF Len(fields) < 17 THEN Parsed("", <<>>)
    ELSE Parsed("",
            Set("fix_type", IntOrNone(Fld(fields, 1)))
            \o Set("pdop", safe_float(Fld(fields, 14)))
            \o Set("hdop", safe_float(Fld(fields, 15)))
            \o Set("vdop", safe_float(Fld(fields, 16))))

\* Lines 113-121: {'gsv': {talker: {'in_view': total_sats}}}.
parse_GSV(talker, fields) ==
    IF Len(fields) < 3 \/ ~isdigit(Fld(fields, 2)) THEN Parsed("", <<>>)
    ELSE Parsed("", Set("gsv", PyGsv(Set(talker, PyInt(DecValue(Fld(fields, 2)))))))

\* u['speed_kmh'] and u['speed_mps'] of lines 131-135.
SpeedFromKmh(kmh) ==
    Opt(kmh # PyNone, "speed_kmh", kmh) \o Opt(kmh # PyNone, "speed_mps", Over36(kmh))

\* Lines 122-137.
parse_VTG(fields) ==
    IF Len(fields) < 7 THEN Parsed("", <<>>)
    ELSE Parsed("",
            Set("course_deg", safe_float(Fld(fields, 0)))
            \o (IF Fld(fields, 4) # "" THEN SpeedFromMps(knots_to_mps(Fld(fields, 4)))
                ELSE IF Fld(fields, 6) # "" THEN SpeedFromKmh(safe_float(Fld(fields, 6)))
                ELSE <<>>)
            \o (IF Len(fields) >= 9 /\ Fld(fields, 8) # ""
                THEN Set("mode", PyStr(Fld(fields, 8))) ELSE <<>>))

\* Lines 144-148 on the converted time.
gst_update(fields, t) ==
    Parsed(FirstRaise(<<t>>),
        SetKnown("utc_time", t)
        \o Set("rms_range_err_m", safe_float(Fld(fields, 1)))
        \o Set("sd_lat_m", safe_float(Fld(fields, 2)))
        \o Set("sd_lon_m", safe_float(Fld(fields, 3)))
        \o Set("sd_alt_m", safe_float(Fld(fields, 4))))

\* Lines 138-148.
parse_GST(fields) ==
    IF Len(fields) < 5 THEN Parsed("", <<>>)
    ELSE gst_update(fields,
            IF Fld(fields, 0) # "" THEN parse_time_date(Fld(fields, 0), "") ELSE PyNone)

\* The branch of parse_sentence for sentence type tp.
Dispatch(tp, talker, fields) ==
    CASE tp = "RMC" -> parse_RMC(fields)
      [] tp = "GGA" -> parse_GGA(fields)
      [] tp = "GNS" -> parse_GNS(fields)
      [] tp = "GSA" -> parse_GSA(fields)
      [] tp = "GSV" -> parse_GSV(talker, fields)
      [] tp = "VTG" -> parse_VTG(fields)
      [] tp = "GST" -> parse_GST(fields)
      [] OTHER -> Parsed("", <<>>)

\* An exception leaves parse_sentence and the dict under construction is lost.
Propagate(r) == IF r.raised # "" THEN Parsed(r.raised, <<>>) ELSE r

\* parse_sentence(talker_sen, fields), lines 56-149: the update dict, or the
\* exception a converter raised.
parse_sentence(talker_sen, fields) ==
    Propagate(Dispatch(SubSeq(talker_sen, Len(talker_sen) - 2, Len(talker_sen)),
                       SubSeq(talker_sen, 1, Len(talker_sen) - 3), fields))

-----------------------------------------------------------------------------
(* The state merger.                                                       *)

\* The variant that assigns the mapping as a whole: state['gsv'] = v.
replace_gsv(gsv, v) == v

\* Lines 155-157: gsv = state.setdefault('gsv', {}); gsv[sys] = obj for each
\* item of the update's mapping.
RECURSIVE merge_gsv(_, _)
merge_gsv(gsv, v) ==
    IF v = <<>> THEN gsv ELSE merge_gsv(Put(gsv, v[1].k, v[1].v), Tail(v))

\* The variant that accumulates: every item is added, none replaced.
merge_appending(st, it) == Append(st, it)

\* One round of the loop of lines 152-159.
merge_item(st, it) ==
    IF it.k = "gsv"
    THEN Put(st, "gsv", PyGsv(merge_gsv(Get(st, "gsv").g, it.v.g)))
    ELSE Put(st, it.k, it.v)

RECURSIVE merge_items(_, _)
merge_items(st, u) ==
    IF u = <<>> THEN st ELSE merge_items(merge_item(st, u[1]), Tail(u))

\* The variant that keeps only the update: state = dict(updates).
merge_replacing(st, u, now) == Put(u, "last_update", now)

\* merge_updates(state, updates), lines 151-161; now is what time.time()
\* returns at line 160, a float.
merge_updates(st, u, now) == Put(merge_items(st, u), "last_update", now)

-----------------------------------------------------------------------------
(* Rendering.                                                              *)

Abs(n) == IF n < 0 THEN -n ELSE n

SignText(n) == IF n < 0 THEN "-" ELSE ""

\* f"{v:.{nd}f}" of a finite float (in millionths).
FixedDigits(sign, scaled, nd) ==
    sign \o ToString(scaled \div Pow10(nd))
    \o (IF nd = 0 THEN "" ELSE "." \o ZeroPad(scaled % Pow10(nd), nd))

FixedText(n, nd) == FixedDigits(SignText(n), DivRound(Abs(n), Pow10(6 - nd)), nd)

RECURSIVE StripZeros(_)
StripZeros(s) ==
    IF Len(s) > 1 /\ Char(s, Len(s)) = "0" THEN StripZeros(SubSeq(s, 1, Len(s) - 1))
    ELSE s

\* repr(round(v, places)) of a finite float: the shortest decimal text.
ReprDigits(sign, scaled, places) ==
    sign \o ToString(scaled \div Pow10(places)) \o "."
    \o StripZeros(ZeroPad(scaled % Pow10(places), places))

ReprText(n, places) == ReprDigits(SignText(n), DivRound(Abs(n), Pow10(6 - places)), places)

\* a < b for texts, as Python orders str.
RECURSIVE StrLess(_, _)
StrLess(a, b) ==
    IF b = "" THEN FALSE
    ELSE IF a = "" THEN TRUE
    ELSE IF Char(a, 1) # Char(b, 1) THEN ord(Char(a, 1)) < ord(Char(b, 1))
    ELSE StrLess(SubSeq(a, 2, Len(a)), SubSeq(b, 2, Len(b)))

\* sorted(keys) of a dict.
RECURSIVE SortedKeys(_)
SortedKeys(ks) ==
    IF ks = {} THEN <<>>
    ELSE LET m == CHOOSE x \in ks : \A y \in ks \ {x} : StrLess(x, y)
         IN <<m>> \o SortedKeys(ks \ {m})

\* sep.join(parts)
RECURSIVE Join(_, _)
Join(parts, sep) ==
    IF parts = <<>> THEN ""
    ELSE IF Len(parts) = 1 THEN parts[1]
    ELSE parts[1] \o sep \o Join(Tail(parts), sep)

\* str(v) of a float, an int, a bool, a str or None.
str(v) ==
    CASE v.t = "float" /\ v.s = "" -> ReprText(v.n, 6)
      [] v.t = "float" /\ v.s = "nan" -> "nan"
      [] v.t = "float" /\ v.s = "inf" -> SignText(v.n) \o "inf"
      [] v.t = "int" -> ToString(v.n)
      [] v.t = "bool" -> (IF v.n = 1 THEN "True" ELSE "False")
      [] v.t = "str" -> v.s
      [] OTHER -> "None"

\* fmt(v, nd) of human_status, lines 164-165.
fmt(v, nd) ==
    IF v.t = "float" /\ v.s # "nan"
    THEN (IF v.s = "inf" THEN SignText(v.n) \o "inf" ELSE FixedText(v.n, nd))
    ELSE str(v)

\* dict.get(key, str(key)) on the two code tables of lines 173 and 176.
FixQualityText(q) ==
    CASE q = 0 -> "no-fix" [] q = 1 -> "GPS" [] q = 2 -> "DGPS" [] q = 4 -> "RTK-fix"
      [] q = 5 -> "RTK-float" [] q = 6 -> "est" [] OTHER -> ToString(q)

FixTypeText(f) ==
    CASE f = 1 -> "no-fix" [] f = 2 -> "2D" [] f = 3 -> "3D" [] OTHER -> ToString(f)

\* The parts of human_status, lines 166-199, in order.
PartIf(cond, text) == IF cond THEN <<text>> ELSE <<>>

GsvParts(g, ks) == [i \in DOMAIN ks |-> ks[i] \o ":" \o ToString(At(g, ks[i]).n)]

GsvSummary(g) == Join(GsvParts(g, SortedKeys(DictKeys(g))), ",")

\* Lines 171-178: the fix part, from fix_quality or else fix_type.
FixPart(fxq, fxt) ==
    PartIf(fxq # PyNone \/ fxt # PyNone,
           "fix " \o (IF fxq # PyNone THEN FixQualityText(fxq.n) ELSE FixTypeText(fxt.n)))

\* Lines 167-170.
TimePart(t) == <<IF t # PyNone /\ t.s # "" THEN "UTC " \o t.s ELSE "UTC ?">>

\* Lines 179-180.
PositionPart(lat, lon) ==
    PartIf(lat # PyNone /\ lon # PyNone, "lat " \o fmt(lat, 6) \o " lon " \o fmt(lon, 6))

\* "if v is not None: parts.append(label + fmt(v, 1) + unit)".
FloatPart(label, v, unit) == PartIf(v # PyNone, label \o fmt(v, 1) \o unit)

\* Lines 183-184.
SatsPart(v) == PartIf(v # PyNone, "sats " \o str(v))

\* Lines 195-198.
GsvPart(gsv) == PartIf(gsv # <<>>, "in_view[" \o GsvSummary(gsv) \o "]")

\* human_status(state), lines 163-200.
human_status(st) ==
    Join(TimePart(Get(st, "utc_time"))
         \o FixPart(Get(st, "fix_quality"), Get(st, "fix_type"))
         \o PositionPart(Get(st, "lat"), Get(st, "lon"))
         \o FloatPart("alt ", Get(st, "alt_m"), " m")
         \o SatsPart(Get(st, "num_sats"))
         \o FloatPart("HDOP ", Get(st, "hdop"), "")
         \o FloatPart("PDOP ", Get(st, "pdop"), "")
         \o FloatPart("VDOP ", Get(st, "vdop"), "")
         \o FloatPart("spd ", Get(st, "speed_kmh"), " kmh")
         \o FloatPart("cog ", Get(st, "course_deg"), " deg")
         \o GsvPart(Get(st, "gsv").g),
         " | ")

\* json.dumps of one value of the rounded copy, lines 412-421: floats are
\* rounded to 6 places (lat, lon) or 3, the gsv mapping is flattened.
JsonValue(k, v) ==
    CASE v.t = "gsv" ->
            "{" \o Join([i \in DOMAIN v.g |->
                           "\"" \o v.g[i].k \o "\":" \o ToString(v.g[i].v.n)], ",") \o "}"
      [] v.t = "float" /\ v.s = "" -> ReprText(v.n, IF k \in {"lat", "lon"} THEN 6 ELSE 3)
      [] v.t = "float" /\ v.s = "nan" -> "NaN"
      [] v.t = "float" /\ v.s = "inf" -> SignText(v.n) \o "Infinity"
      [] v.t = "int" -> ToString(v.n)
      [] v.t = "bool" -> (IF v.n = 1 THEN "true" ELSE "false")
      [] v.t = "str" -> "\"" \o v.s \o "\""
      [] OTHER -> "null"

\* The JSON record of lines 412-421 (and 335-344).
json_status(st) ==
    "{" \o Join([i \in DOMAIN st |->
                   "\"" \o st[i].k \o "\":" \o JsonValue(st[i].k, st[i].v)], ",") \o "}"

\* str(v) of the gsv mapping, line 402: {'GP': {'in_view': 7}, ...}.
GsvStr(g) ==
    "{" \o Join([i \in DOMAIN g |->
                   "'" \o g[i].k \o "': {'in_view': " \o ToString(g[i].v.n) \o "}"], ", ")
    \o "}"

\* A format template is a sequence of pieces: literal text, then a
\* placeholder %(key)conv, conv one of "s", "d", ".1f", ".6f" ("" for none).
Piece(lit, key, conv) == [lit |-> lit, key |-> key, conv |-> conv]

Rendered(err, text) == [err |-> err, text |-> text]

\* A numeric value in millionths.
Micro(v) == IF v.t = "float" THEN v.n ELSE v.n * 1000000

\* One placeholder of "args.format % format_dict": the text, or the exception
\* the % operator raises (KeyError for a missing key, TypeError for a value
\* the conversion does not take, ValueError or OverflowError for %d of nan, inf).
ConvertValue(has, v, conv) ==
    IF ~has THEN Rendered("KeyError", "")
    ELSE IF conv = "s" THEN Rendered("", IF v.t = "gsv" THEN GsvStr(v.g) ELSE str(v))
    ELSE IF v.t \notin {"float", "int", "bool"} THEN Rendered("TypeError", "")
    ELSE IF v.t = "float" /\ v.s # ""
         THEN (IF conv = "d"
               THEN Rendered(IF v.s = "nan" THEN "ValueError" ELSE "OverflowError", "")
               ELSE Rendered("", SignText(IF v.s = "inf" THEN v.n ELSE 0) \o v.s))
    ELSE IF conv = "d"
         THEN Rendered("", SignText(Micro(v)) \o ToString(Abs(Micro(v)) \div 1000000))
    ELSE Rendered("", FixedText(Micro(v), IF conv = ".6f" THEN 6 ELSE 1))

Convert(st, key, conv) == ConvertValue(Has(st, key), Get(st, key), conv)

\* A piece's literal and converted placeholder, followed by the rest; the
\* first exception from the left wins.
Combine(lit, c, rest) ==
    IF c.err # "" THEN c
    ELSE IF rest.err # "" THEN rest
    ELSE Rendered("", lit \o c.text \o rest.text)

PieceText(p, st) == IF p.key = "" THEN Rendered("", "") ELSE Convert(st, p.key, p.conv)

\* args.format % format_dict, lines 398-408.
RECURSIVE format_status(_, _)
format_status(template, st) ==
    IF template = <<>> THEN Rendered("", "")
    ELSE Combine(template[1].lit, PieceText(template[1], st),
                 format_status(Tail(template), st))

\* The templates of the model, from the examples of lines 267-268.
TemplateLatLon == <<Piece("Lat: ", "lat", ".6f"), Piece(", Lon: ", "lon", ".6f")>>

TemplateFull ==
    <<Piece("", "utc_time", "s"), Piece(" | ", "lat", ".6f"), Piece(",", "lon", ".6f"),
      Piece(" | Alt: ", "alt_m", ".1f"), Piece("m | Sats: ", "num_sats", "d")>>

-----------------------------------------------------------------------------
(* The command line, the clock and the inputs of the model.                *)

\* The parsed arguments main() reads: --once, --partial, --json, --format
\* (a template, <<>> for None), --raw and --log (TRUE for a path).
Args(once, partial, json, format, raw, log) ==
    [once |-> once, partial |-> partial, json |-> json, format |-> format,
     raw |-> raw, log |-> log]

ArgsSet ==
    { Args(FALSE, FALSE, FALSE, <<>>, FALSE, TRUE),
      Args(FALSE, TRUE, TRUE, <<>>, TRUE, FALSE),
      Args(FALSE, TRUE, FALSE, TemplateLatLon, FALSE, FALSE),
      Args(FALSE, FALSE, FALSE, TemplateFull, FALSE, TRUE),
      Args(TRUE, FALSE, FALSE, <<>>, FALSE, TRUE),
      Args(TRUE, TRUE, TRUE, <<>>, TRUE, FALSE),
      Args(TRUE, FALSE, FALSE, TemplateLatLon, FALSE, FALSE) }

\* The clock counts ticks; the 1.0 of "now - last_emit >= 1.0" is this many.
TicksPerSec == 2

\* time.time() as a float.
TimeValue(ticks) == PyFloat(ticks * (1000000 \div TicksPerSec))

\* time.time() when main() starts: later than one second after the epoch.
StartClock == 10 * TicksPerSec

\* The ticks that pass while the loop waits for its next line.
Steps == {1, 2}

\* Sample sentences, each with the checksum of its body unless said otherwise.
RmcFix == "$GPRMC,123519,A,4807.038,N,01131.000,E,10.0,84.4,230394,003.1,W*6F"

GgaFix == "$GPGGA,123519,4807.038,N,01131.000,E,1,08,0.9,545.4,M,46.9,M,,*47"

\* A void RMC: no position, no speed, no course.
RmcVoid == "$GPRMC,123521,V,,,,,,,230394,,*38"

GsvGp7 == "$GPGSV,1,1,07*7E"

GsvGl5 == " $GLGSV,1,1,05*60\r\n"

GsvGp9 == "$GPGSV,1,1,09*70"

\* The checksum of GsvGp7 in lower-case hex digits.
GsvLowerSum == "$GPGSV,1,1,07*7e"

\* A checksum that is not the XOR of the body.
GsvBadSum == "$GPGSV,1,1,07*7F"

GsaFix == "$GPGSA,A,3,04,05,,09,12,,,24,,,,,2.5,1.3,2.1*39"

\* A checksum-valid RMC whose time field is not a number.
RmcBadTime == "$GPRMC,12xx19,A,4807.038,N,01131.000,E,10.0,84.4,230394,003.1,W*69"

\* A checksum-valid RMC whose latitude reads as float('nan').
RmcNanLat == "$GPRMC,123519,A,nan,N,01131.000,E,10.0,84.4,230394,003.1,W*10"

\* The lines the serial port yields to the processing loops.
LoopLines == {RmcFix, GgaFix, RmcVoid, GsvGp7, GsaFix, RmcBadTime, GsvBadSum}

\* The lines given to the decoding pipeline alone.
DecodeLines ==
    { RmcFix, RmcVoid, GgaFix,
      "$GPGGA,123522,4807.038,N,01131.000,E,2,x,,545.4,M,46.9,M*1B",
      "$GNGNS,123523,4807.038,N,01131.000,E,AN,09,1.1,545.0,46.9,,*79",
      "$GPGSA,A,,04,05,,09,12,,,24,,,,,,,*22",
      GsvGp7, GsvGl5, GsvGp9, GsvLowerSum,
      "$GPVTG,,T,,M,,N,010.2,K,A*0E",
      "$GPGST,123524,0.5,,,1.2,1.3,2.4*7A",
      "$GPZDA,123519,23,03,1994,00,00*42",
      "$GPRMC,123519,A,4807.038,N*57",
      RmcNanLat,
      "noise" }

Lines == LoopLines \cup DecodeLines

\* s = raw.decode('ascii', errors='ignore').strip() for each line.
Stripped == [l \in Lines |-> strip(l)]

\* The outcome of lines 366-379 (and 293-304) for each line.
Frames == [l \in Lines |-> ValidateFrame(l)]

\* updates = parse_sentence(talker_sen, fields), line 386 (and 311), for each
\* line that passes the validation.
Decodes ==
    [l \in Lines |->
        IF Frames[l].ok THEN parse_sentence(Frames[l].talker_sen, Frames[l].fields)
        ELSE Parsed("", <<>>)]

-----------------------------------------------------------------------------
(* The processing loops of main().                                         *)

Out(kind, text, at) == [kind |-> kind, text |-> text, at |-> at]

\* The records among the entries of stdout.
Records(out) == SelectSeq(out, LAMBDA e : e.kind = "record")

\* state.get('lat') is not None and state.get('lon') is not None and
\* state.get('utc_time'), lines 318 and 393.
Complete(st) ==
    /\ Get(st, "lat") # PyNone
    /\ Get(st, "lon") # PyNone
    /\ Get(st, "utc_time") # PyNone /\ Get(st, "utc_time").s # ""

\* The variant without the cadence test.
AlwaysDue(now, last) == TRUE

\* now - last_emit >= 1.0, lines 316 and 391.
CadenceDue(now, last) == now - last >= TicksPerSec

\* The variants of the gate: without any test, and without args.partial.
GateOpen(a, st) == TRUE

GateComplete(a, st) == Complete(st)

\* The condition of line 393.
EmitGate(a, st) == a.partial \/ Complete(st)

\* The condition of line 318.
OnceGate(a, st) == Complete(st)

\* The rendering chosen at lines 394-424 (and 320-348).
Render(a, st) ==
    IF a.format # <<>> THEN format_status(a.format, st)
    ELSE IF a.json THEN Rendered("", json_status(st))
    ELSE Rendered("", human_status(st))

\* except (KeyError, ValueError, TypeError), lines 332 and 409.
FormatErrors == {"KeyError", "ValueError", "TypeError"}

\* len(outputs) >= 2, line 351.
OnceLimit == 2

\* The variant that prints the first rendering: outputs[0].
FirstOf(outs) == outs[1]

\* max(outputs, key=len), line 356: the first of the longest.
Longer(outs) ==
    outs[CHOOSE i \in DOMAIN outs :
            /\ \A j \in DOMAIN outs : Len(outs[j]) <= Len(outs[i])
            /\ \A j \in 1..(i - 1) : Len(outs[j]) < Len(outs[i])]

\* What the finally clause of lines 427-429 leaves of the log file.
Closed(f) == IF f = "open" THEN "closed" ELSE f

Init ==
    /\ args \in ArgsSet
    /\ pc = "open"
    /\ line = "" /\ frame = Rejected /\ updates = <<>>
    /\ state = <<>> /\ last_emit = 0 /\ clock = StartClock /\ nread = 0
    /\ outputs = <<>> /\ stdout = <<>> /\ stderr = <<>>
    /\ logf = "none" /\ logged = <<>> /\ interrupted = FALSE

\* Lines 272-283: rdr.open() succeeds or raises; then the log file is opened.
OpenPort ==
    /\ pc = "open"
    /\ \E ok \in BOOLEAN :
         IF ok
         THEN /\ pc' = "read"
              /\ logf' = IF args.log THEN "open" ELSE "none"
              /\ UNCHANGED stderr
         ELSE /\ pc' = "exit1"
              /\ stderr' = Append(stderr, "Failed to open")
              /\ UNCHANGED logf
    /\ UNCHANGED <<args, line, frame, updates, state, last_emit, clock, nread,
                   outputs, stdout, logged, interrupted>>

\* An exception leaving main(): the continuous loop runs its finally clause
\* (lines 427-429); the --once loop has no handler at all.
Traceback ==
    /\ pc' = "traceback"
    /\ logf' = IF args.once THEN logf ELSE Closed(logf)

\* Lines 386-388 (and 311-313): updates = parse_sentence(...); if updates:
\* merge_updates(state, updates).  An exception of the decoder leaves main().
Decoded(r, now) ==
    IF r.raised # ""
    THEN Traceback /\ UNCHANGED <<updates, state>>
    ELSE /\ updates' = r.u
         /\ state' = IF r.u # <<>> THEN merge_updates(state, r.u, now) ELSE state
         /\ pc' = "tick"
         /\ UNCHANGED logf

\* Lines 363-388 (and 288-313): the next line is read, validated, echoed and
\* logged, decoded and merged.  A rejected line is dropped (continue).
ReadLine(l, dt) ==
    /\ pc = "read"
    /\ nread < MaxLines
    /\ nread' = nread + 1
    /\ clock' = clock + dt
    /\ line' = l
    /\ frame' = Frames[l]
    /\ IF ~frame'.ok
       THEN UNCHANGED <<pc, updates, state, stdout, logf, logged>>
       ELSE /\ stdout' = IF args.raw THEN Append(stdout, Out("raw", Stripped[l], clock'))
                         ELSE stdout
            /\ logged' = IF logf = "open" THEN Append(logged, Stripped[l]) ELSE logged
            /\ Decoded(Decodes[l],
                       TimeValue(clock'))
    /\ UNCHANGED <<args, last_emit, outputs, stderr, interrupted>>

\* Lines 394-424: the record r is printed; a format error of the caught
\* classes is reported on stderr; any other exception leaves main().
Emit(r, now) ==
    IF r.err = ""
    THEN /\ stdout' = Append(stdout, Out("record", r.text, now))
         /\ UNCHANGED <<stderr, logf>> /\ pc' = "read"
    ELSE IF r.err \in FormatErrors
    THEN /\ stderr' = Append(stderr, "Format error: " \o r.err)
         /\ UNCHANGED <<stdout, logf>> /\ pc' = "read"
    ELSE Traceback /\ UNCHANGED <<stdout, stderr>>

\* Lines 390-424: the cadence gate, the completeness gate and the rendering
\* of the continuous loop.
Cadence ==
    /\ pc = "tick"
    /\ ~args.once
    /\ IF ~CadenceDue(clock, last_emit)
       THEN UNCHANGED <<last_emit, stdout, stderr, logf>> /\ pc' = "read"
       ELSE /\ last_emit' = clock
            /\ IF ~EmitGate(args, state)
               THEN UNCHANGED <<stdout, stderr, logf>> /\ pc' = "read"
               ELSE Emit(Render(args, state), clock)
    /\ UNCHANGED <<args, line, frame, updates, state, clock, nread, outputs,
                   logged, interrupted>>

\* Lines 320-352: the record r joins outputs; the test of line 351 follows
\* the try statement, so it also runs after a reported format error.
Collect(r) ==
    IF r.err = ""
    THEN /\ outputs' = Append(outputs, r.text)
         /\ UNCHANGED <<stderr, logf>>
         /\ pc' = IF Len(outputs') >= OnceLimit THEN "final" ELSE "read"
    ELSE IF r.err \in FormatErrors
    THEN /\ stderr' = Append(stderr, "Format error: " \o r.err)
         /\ UNCHANGED <<outputs, logf>>
         /\ pc' = IF Len(outputs) >= OnceLimit THEN "final" ELSE "read"
    ELSE Traceback /\ UNCHANGED <<outputs, stderr>>

\* Lines 315-352: the same gates in the --once loop, which collects the
\* renderings and leaves the loop once it holds two.
CadenceOnce ==
    /\ pc = "tick"
    /\ args.once
    /\ IF ~CadenceDue(clock, last_emit)
       THEN UNCHANGED <<last_emit, outputs, stderr, logf>> /\ pc' = "read"
       ELSE /\ last_emit' = clock
            /\ IF ~OnceGate(args, state)
               THEN UNCHANGED <<outputs, stderr, logf>> /\ pc' = "read"
               ELSE Collect(Render(args, state))
    /\ UNCHANGED <<args, line, frame, updates, state, clock, nread, stdout,
                   logged, interrupted>>

\* Lines 354-360: after the --once loop, the longer rendering is printed,
\* the log file is closed and main() returns.
Finish ==
    /\ pc = "final"
    /\ stdout' = IF outputs # <<>>
                 THEN Append(stdout, Out("record", Longer(outputs), clock))
                 ELSE stdout
    /\ logf' = Closed(logf)
    /\ pc' = "returned"
    /\ UNCHANGED <<args, line, frame, updates, state, last_emit, clock, nread,
                   outputs, stderr, logged, interrupted>>

\* KeyboardInterrupt inside a loop.  Lines 425-429 catch it in the continuous
\* loop; in the --once loop (lines 286-360) it leaves main() uncaught.
Interrupt ==
    /\ pc \in {"read", "tick"}
    /\ interrupted' = TRUE
    /\ IF args.once
       THEN Traceback /\ UNCHANGED stdout
       ELSE /\ stdout' = Append(stdout, Out("msg", "Interrupted.", clock))
            /\ logf' = Closed(logf)
            /\ pc' = "returned"
    /\ UNCHANGED <<args, line, frame, updates, state, last_emit, clock, nread,
                   outputs, stderr, logged>>

Next ==
    \/ OpenPort
    \/ \E l \in LoopLines, dt \in Steps : ReadLine(l, dt)
    \/ Cadence
    \/ CadenceOnce
    \/ Finish
    \/ Interrupt

Spec == Init /\ [][Next]_vars

-----------------------------------------------------------------------------
(* The decoding pipeline alone: validate, decode, merge.                   *)

InitDecode ==
    /\ args = Args(FALSE, FALSE, FALSE, <<>>, FALSE, FALSE)
    /\ pc = "read"
    /\ line = "" /\ frame = Rejected /\ updates = <<>>
    /\ state = <<>> /\ last_emit = 0 /\ clock = StartClock /\ nread = 0
    /\ outputs = <<>> /\ stdout = <<>> /\ stderr = <<>>
    /\ logf = "none" /\ logged = <<>> /\ interrupted = FALSE

\* Lines 386-388 without the cadence step that follows them.
DecodedOnly(r, now) ==
    IF r.raised # ""
    THEN pc' = "traceback" /\ UNCHANGED <<updates, state>>
    ELSE /\ updates' = r.u
         /\ state' = IF r.u # <<>> THEN merge_updates(state, r.u, now) ELSE state
         /\ UNCHANGED pc

\* Lines 365-379 and 386-388 on one line, without the cadence step.
DecodeLine(l, dt) ==
    /\ pc = "read"
    /\ nread < MaxLines
    /\ nread' = nread + 1
    /\ clock' = clock + dt
    /\ line' = l
    /\ frame' = Frames[l]
    /\ IF ~frame'.ok
       THEN UNCHANGED <<pc, updates, state>>
       ELSE DecodedOnly(Decodes[l],
                        TimeValue(clock'))
    /\ UNCHANGED <<args, last_emit, outputs, stdout, stderr, logf, logged,
                   interrupted>>

NextDecode == \E l \in DecodeLines, dt \in Steps : DecodeLine(l, dt)

SpecDecode == InitDecode /\ [][NextDecode]_vars

-----------------------------------------------------------------------------
(* Properties of the decoding pipeline (SpecDecode).                       *)

\* The keys the sentence just decoded supplies: those of updates when the
\* current line passed the validation and parse_sentence returned.
Supplied == IF frame.ok /\ pc # "traceback" THEN DictKeys(updates) ELSE {}

SentenceType == SubSeq(frame.talker_sen, Len(frame.talker_sen) - 2, Len(frame.talker_sen))

\* The keys each sentence type can supply.
SuppliedBy(tp) ==
    CASE tp = "RMC" -> {"utc_time", "fix_ok", "lat", "lon", "speed_mps", "speed_kmh",
                        "course_deg", "mode"}
      [] tp = "GGA" -> {"utc_time", "lat", "lon", "fix_quality", "num_sats", "hdop",
                        "alt_m", "geoid_sep_m", "age_corrections_s", "dgps_id"}
      [] tp = "GNS" -> {"utc_time", "lat", "lon", "mode", "num_sats", "hdop", "alt_m",
                        "geoid_sep_m"}
      [] tp = "GSA" -> {"fix_type", "pdop", "hdop", "vdop"}
      [] tp = "GSV" -> {"gsv"}
      [] tp = "VTG" -> {"course_deg", "speed_mps", "speed_kmh", "mode"}
      [] tp = "GST" -> {"utc_time", "rms_range_err_m", "sd_lat_m", "sd_lon_m", "sd_alt_m"}
      [] OTHER -> {}

\* The keys the decoder sets only when the sentence carries a value.
SparseKeys == {"utc_time", "fix_ok", "lat", "lon", "speed_mps", "speed_kmh", "mode", "gsv"}

GsvOf(d) == Get(d, "gsv").g

\* C3: the satellites-in-view mapping is merged key by key: a GSV update
\* replaces the entry of each constellation it names, and the entries of the
\* other constellations persist unchanged.
C3_GsvPerKey ==
    [][("gsv" \in Supplied') =>
          /\ DictKeys(GsvOf(state')) = DictKeys(GsvOf(state)) \cup DictKeys(GsvOf(updates'))
          /\ \A t \in DictKeys(GsvOf(updates')) :
                Get(GsvOf(state'), t) = Get(GsvOf(updates'), t)
          /\ \A t \in DictKeys(GsvOf(state)) \ DictKeys(GsvOf(updates')) :
                Get(GsvOf(state'), t) = Get(GsvOf(state), t)]_vars

\* {GP:7}, then {GL:5}, then {GP:9}: the state holds {GP:9, GL:5}.
C3_Witness ==
    /\ line = GsvGp9
    /\ nread = 3
    /\ GsvOf(state) = <<Item("GP", PyInt(9)), Item("GL", PyInt(5))>>

\* The shape $TALKER-SENTENCE,body*HH with HH two hex digits of either case.
WellFormed(s) ==
    s # "" /\ Char(s, 1) = "$"
    /\ TailMatch(s, HeadLen(s), HexDigitsUpper \cup Chars(LowerHex)).ok

\* The characters of a well-formed s between '$' and '*'.
BodyOf(s) == SubSeq(s, 2, Len(s) - 3)

\* C6: a well-formed frame is accepted if and only if the XOR of the bytes
\* between '$' and '*' equals the transmitted hex pair, compared without
\* regard to case.
C6_ChecksumIff ==
    (line # "" /\ WellFormed(strip(line))) =>
        (frame.ok <=>
            upper(SubSeq(strip(line), Len(strip(line)) - 1, Len(strip(line))))
                = nmea_checksum(BodyOf(strip(line))))

-----------------------------------------------------------------------------
(* Properties of the processing loops (Spec).                              *)

\* C4: in non-partial mode a record is emitted only in a state that holds
\* latitude, longitude and UTC timestamp.
C4_GatedEmission ==
    [][(~args.partial /\ Len(Records(stdout')) > Len(Records(stdout)))
          => (Complete(state) /\ Complete(state'))]_vars

\* Non-partial continuous mode: the first sentence logged is the void RMC,
\* which leaves the state incomplete, and a record was emitted later.
C4_Witness ==
    /\ ~args.partial /\ ~args.once
    /\ Len(logged) >= 2 /\ logged[1] = RmcVoid
    /\ Records(stdout) # <<>>

\* C5: between two consecutive emitted records at least one second has
\* elapsed on the clock the loop samples.
C5_Cadence ==
    \A i \in 1..(Len(Records(stdout)) - 1) :
        Records(stdout)[i + 1].at - Records(stdout)[i].at >= TicksPerSec

\* Two records with an echoed sentence strictly between them in time: the
\* tick of that sentence was not due.
C5_Witness ==
    \E i, j, k \in DOMAIN stdout :
        /\ i < j /\ j < k
        /\ stdout[i].kind = "record" /\ stdout[j].kind = "raw" /\ stdout[k].kind = "record"
        /\ stdout[i].at < stdout[j].at /\ stdout[j].at < stdout[k].at

\* C7: no input line stops the process: after any line is read the loop
\* goes on, to its cadence step or to the next line.
C7_NoLineStops == [][nread' = nread + 1 => pc' \in {"read", "tick"}]_vars

\* C8: in emit-once mode no record is printed and input is read only while
\* fewer than two renderings are collected; once main() has returned, exactly
\* two were collected and exactly one record was printed, a longest of the two.
C8_OnceLonger ==
    args.once =>
        /\ Len(outputs) <= OnceLimit
        /\ pc \in {"read", "tick"} => Len(outputs) < OnceLimit
        /\ pc # "returned" => Records(stdout) = <<>>
        /\ pc = "returned" =>
              /\ Len(outputs) = OnceLimit
              /\ Len(Records(stdout)) = 1
              /\ \E i \in DOMAIN outputs : Records(stdout)[1].text = outputs[i]
              /\ \A i \in DOMAIN outputs : Len(outputs[i]) <= Len(Records(stdout)[1].text)

\* Emit-once mode has returned; the second rendering is the longer one and
\* is the record printed.
C8_Witness ==
    /\ args.once /\ pc = "returned"
    /\ Len(outputs) = 2 /\ Len(outputs[1]) < Len(outputs[2])
    /\ Records(stdout) = <<Out("record", outputs[2], clock)>>

\* C9: in every mode an interrupt is caught: main() returns and no log file
\* is left open.
C9_InterruptCaught == interrupted => (pc = "returned" /\ logf # "open")

\* A cadence step of the loop that is due: an iteration at its cadence test,
\* not interrupted, at least one second after the last tick.
DueTick == pc = "tick" /\ CadenceDue(clock, last_emit) /\ interrupted' = interrupted

\* C10, as the code has it: in the continuous loop with --partial, a due tick
\* whose rendering succeeds emits that rendering whatever the state holds.
C10_PartialEmits ==
    [][(args.partial /\ ~args.once /\ DueTick /\ Render(args, state).err = "")
          => stdout' = Append(stdout, Out("record", Render(args, state).text, clock))]_vars

\* Continuous partial mode: a record was emitted and the state still has no
\* position.
C10_Witness ==
    /\ args.partial /\ ~args.once
    /\ Records(stdout) # <<>>
    /\ ~Complete(state) /\ ~Has(state, "lat")

\* C10, as stated: whenever --partial is set, a due tick emits a record.
C10_PartialAlways ==
    [][(args.partial /\ DueTick)
          => Len(Records(stdout')) = Len(Records(stdout)) + 1]_vars

\* A dict without its 'last_update' item.
Untimed(d) == SelectSeq(d, LAMBDA it : it.k # "last_update")

\* The line just read is the line read before it, and both were decoded into
\* a non-empty update and merged: the same update is applied a second time.
SameUpdateAgain ==
    nread' = nread + 1 /\ line' = line /\ Supplied # {} /\ Supplied' # {}

\* C11, as the code has it: applying the same update twice yields the state
\* of applying it once, but for 'last_update', which holds the time of the
\* second merge.
C11_IdempotentButTime ==
    [][SameUpdateAgain =>
          /\ updates' = updates
          /\ Untimed(state') = Untimed(state)
          /\ Get(state', "last_update") = TimeValue(clock')]_vars

\* The full RMC was read, logged and merged twice; the state holds its
\* fields once each, and the time of the second merge.
C11_Witness ==
    /\ logged = <<RmcFix, RmcFix>>
    /\ nread = 2
    /\ Untimed(state) = updates
    /\ Get(state, "last_update") = TimeValue(clock)
    /\ clock > StartClock + 1

\* C11, as stated: applying the same update twice yields a state identical
\* to the state after applying it once.
C11_Idempotent == [][SameUpdateAgain => state' = state]_vars

====
